---- MODULE Spec2Model ----
(***************************************************************************)
(* Model of the admin_page control plane (server.js, kept in the source    *)
(* tree as src/unnamed/part_000, with the older copy src/server/api.js):   *)
(*   - the Event Hub: the `notifications` array, addNotification,          *)
(*     broadcastNotification, the /api/notifications endpoints and the     *)
(*     /ws/notifications observers;                                        *)
(*   - the Job Orchestrator: the /api/backups endpoints, the backup task   *)
(*     started with setImmediate, its progress timer and the tar process;  *)
(*   - the Session Bridge: the /ws/terminal connections and their pty.     *)
(* Node runs every handler and callback to completion on one thread, so    *)
(* each handler (up to its first await) and each callback is one action.   *)
(***************************************************************************)
EXTENDS Integers, Sequences, FiniteSets, TLC

----------------------------------------------------------------------------
(* Bounds of the exploration *)

\* appends explored under SpecHub and SpecJobs
MaxAppend == 2
\* appends explored under SpecFill (the log is filled past its capacity)
FillAppends == 60
\* delete / mark-read / clear requests explored under SpecHub
MaxOps == 1
\* delete / mark-read / clear requests and clock steps explored under SpecFill
FillOps == 1
\* the clock stops advancing here (ms)
MaxTime == 6000
\* one step of the clock (ms); Date.now() is read between steps
TickMs == 6000
\* onData events explored per terminal session
MaxOut == 2
\* largest artifact size explored (bytes)
MaxSize == 3
\* the size estimate `du` reports when it reports one (bytes)
EstSize == 2
\* messages explored per terminal channel
MaxIn == 3
\* hours explored by the login session of the admin UI
MaxHours == 9
\* admin-panel users explored
MaxUsers == 3
\* messages the Notifications component may be behind when an append is made
MaxLag == 1

(* Program constants *)
MAX_NOTIFICATIONS == 50
WS_OPEN == 1
WS_CLOSING == 2
WS_CLOSED == 3
UPDATE_MS == 5000
GRACE_MS == 2000
MAX_PROGRESS == 99
SESSION_DURATION == 28800000

\* the observers of /ws/notifications
Clients == {1, 2}
\* the POST /api/backups/create requests
Reqs == {1, 2}
\* the /ws/terminal connections
Sessions == {1, 2}
Times == {t \in 0..MaxTime : t % TickMs = 0}
\* a backup id is the creation time cut to the second
JobIds == {t \div 1000 : t \in Times}
NoJob == 0 - 1
Undefined == "undefined"
NoSize == 0 - 1
\* the tar child has not ended; it ended with an 'error' event (no exit code)
NoCode == 0 - 1
SpawnError == 0 - 2
\* localStorage holds no 'admin_session' item
NoSession == 0 - 1
\* what stands for a status file that does not exist
NoFile ==
    [status |-> "ENOENT", progress |-> 0, estimatedSize |-> NoSize,
     currentSize |-> NoSize, error |-> Undefined, notes |-> Undefined]

\* what stands for a status file whose content is not JSON (a file cut short by a
\* crash or a full disk, a file edited by hand)
Corrupt ==
    [status |-> "SyntaxError", progress |-> 0, estimatedSize |-> NoSize,
     currentSize |-> NoSize, error |-> Undefined, notes |-> Undefined]

VARIABLES
    now,            \* Date.now()
    notifications,  \* the Event Hub's log, newest first
    wsClients,      \* the observer registry
    readyState,     \* per observer channel: 0 before the connection, else ws.readyState
    inbox,          \* per observer channel: the messages sent on it, in order
    subAt,          \* per observer channel: the number of appends before it subscribed
    nAppended,      \* number of addNotification calls so far
    nOps,           \* number of delete / mark-read / clear requests so far
    hubRemoved,     \* TRUE once an event left the log by delete or clear
    sendFails,      \* per observer channel: client.send throws on it
    pc,             \* per create request: where its handler / task stands
    jobOf,          \* per create request: backupId
    est,            \* per create request: estimatedSize
    lastUpdateTime, \* per create request: lastUpdateTime of its timer
    monitor,        \* per create request: monitorInterval is set
    proc,           \* per create request: the state of its tar child process
    linked,         \* per create request: the file its tar writes is still at backupPath
    exitCode,       \* per create request: how its tar ended (NoCode while it has not)
    restore,        \* the restore request: where it stands, its backup id, the time of its reply
    deleted,        \* the backup ids DELETE /api/backups/:id has answered success for
    artifact,       \* per backup id: size of <id>.tar.gz, NoSize when there is no file
    sidecar,        \* per backup id: content of <id>.tar.gz.status, NoFile when absent
    tws,            \* per terminal session: 0 before the connection, else ws.readyState
    pty,            \* per terminal session: "none", "alive" or "exited" (onExit has run)
    hup,            \* per terminal session: a kill signal was sent to the live process
    tout,           \* per terminal session: the messages sent on its channel, in order
    produced,       \* per terminal session: number of onData events so far
    killCalls,      \* per terminal session: number of ptyProcess.kill() calls
    closeCalls,     \* per terminal session: number of ws.close() calls of the server
    openAtExit,     \* per terminal session: the channel was open when onExit ran
    tin,            \* per terminal session: the messages that arrived on its channel, in order
    written,        \* per shell process: the data handed to ptyProcess.write, in order
    uncaught,       \* an exception left a handler of the terminal channels uncaught
    page,           \* the admin UI in the browser: "closed" or "open" (AuthProvider mounted)
    stored,         \* localStorage['admin_session']: the timestamp of the login, or NoSession
    isAuthenticated, \* the state of AuthProvider
    users,          \* admin_users.json: the admin-panel users, in file order
    view,           \* the Notifications component: its list of events
    viewUnread,     \* the Notifications component: its unread count
    viewSeen        \* the Notifications component: messages of its channel handled so far

hubVars ==
    <<notifications, wsClients, readyState, inbox, subAt, nAppended, nOps, hubRemoved,
      sendFails>>
\* the hub but for the channels' messages
hubQuiet ==
    <<notifications, wsClients, readyState, subAt, nAppended, nOps, hubRemoved, sendFails>>
taskVars ==
    <<pc, jobOf, est, lastUpdateTime, monitor, proc, linked, exitCode, restore, deleted>>
fileVars == <<artifact, sidecar>>
jobVars == <<taskVars, fileVars>>
\* the input side of a terminal session
inVars == <<tin, written, uncaught>>
termVars == <<tws, pty, hup, tout, produced, killCalls, closeCalls, openAtExit, inVars>>
\* the login session of the admin UI
authVars == <<page, stored, isAuthenticated>>
\* the admin panel: what lives in the browser and behind the panel's own endpoints
\* the Notifications component of the admin UI
viewVars == <<view, viewUnread, viewSeen>>
panelVars == <<authVars, users, viewVars>>
vars == <<now, hubVars, jobVars, termVars, panelVars>>

----------------------------------------------------------------------------
(* Helpers *)

Min(a, b) == IF a < b THEN a ELSE b

Range(s) == {s[i] : i \in 1..Len(s)}

\* Array.prototype.unshift
Unshift(s, e) == <<e>> \o s

\* Array.prototype.pop (the array without its last element)
Pop(s) == SubSeq(s, 1, Len(s) - 1)

\* Array.prototype.findIndex, 0 for -1
RECURSIVE FindIndexFrom(_, _, _)
FindIndexFrom(s, id, i) ==
    IF i > Len(s) THEN 0
    ELSE IF s[i].id = id THEN i
    ELSE FindIndexFrom(s, id, i + 1)

FindIndex(s, id) == FindIndexFrom(s, id, 1)

\* Array.prototype.splice(index, 1)
Splice1(s, i) == SubSeq(s, 1, i - 1) \o SubSeq(s, i + 1, Len(s))

----------------------------------------------------------------------------
(* Event Hub *)

\* the object literal of addNotification; seq is the append's serial number
\* (not a field of the program's object: it tells apart events of one millisecond)
NewNotification(type, title, message) ==
    [id |-> now, type |-> type, title |-> title, message |-> message,
     timestamp |-> now, read |-> FALSE, seq |-> nAppended + 1, job |-> NoJob]

AddToLogNoEvict(log, n) == Unshift(log, n)

\* notifications.unshift(notification); if (length > MAX_NOTIFICATIONS) pop()
AddToLog(log, n) ==
    LET l == Unshift(log, n)
    IN  IF Len(l) > MAX_NOTIFICATIONS THEN Pop(l) ELSE l

PushMsg(n) == [type |-> "notification", data |-> n]

InitMsg(log) == [type |-> "notifications_init", data |-> log]

BroadcastSkipFirst(box, n) ==
    [c \in Clients |->
        IF c \in Range(wsClients) /\ c # wsClients[1] /\ readyState[c] = WS_OPEN
           /\ ~sendFails[c]
        THEN Append(box[c], PushMsg(n))
        ELSE box[c]]

BroadcastWithoutCatch(box, n) ==
    [c \in Clients |->
        IF /\ c \in Range(wsClients) /\ readyState[c] = WS_OPEN /\ ~sendFails[c]
           /\ \A i, j \in 1..Len(wsClients) :
                 (wsClients[j] = c /\ i < j) =>
                     ~(readyState[wsClients[i]] = WS_OPEN /\ sendFails[wsClients[i]])
        THEN Append(box[c], PushMsg(n))
        ELSE box[c]]

\* broadcastNotification: every registered client whose readyState is OPEN is sent
\* the event; each channel keeps its own order, so the forEach order is immaterial.
\* A client.send that throws is caught inside the loop body: that client gets
\* nothing and the loop goes on.
Broadcast(box, n) ==
    [c \in Clients |->
        IF c \in Range(wsClients) /\ readyState[c] = WS_OPEN /\ ~sendFails[c]
        THEN Append(box[c], PushMsg(n))
        ELSE box[c]]

\* addNotification(type, title, message)
AddNotification(type, title, message) ==
    LET n == NewNotification(type, title, message)
    IN  /\ notifications' = AddToLog(notifications, n)
        /\ inbox' = Broadcast(inbox, n)
        /\ nAppended' = nAppended + 1
        /\ UNCHANGED <<wsClients, readyState, subAt, nOps, hubRemoved, sendFails>>

\* DELETE /api/notifications/:id
NotifDelete(id) ==
    LET index == FindIndex(notifications, id)
    IN  /\ nOps' = nOps + 1
        /\ IF index = 0
           THEN UNCHANGED <<notifications, hubRemoved>>
           ELSE /\ notifications' = Splice1(notifications, index)
                /\ hubRemoved' = TRUE
        /\ UNCHANGED <<wsClients, readyState, inbox, subAt, nAppended, sendFails>>

\* POST /api/notifications/mark-read with id = 'all'
NotifMarkAllRead ==
    /\ nOps' = nOps + 1
    /\ notifications' = [i \in 1..Len(notifications) |->
                            [notifications[i] EXCEPT !.read = TRUE]]
    /\ UNCHANGED <<wsClients, readyState, inbox, subAt, nAppended, hubRemoved, sendFails>>

\* POST /api/notifications/mark-read with an event id: find() takes the first match
NotifMarkRead(id) ==
    LET index == FindIndex(notifications, id)
    IN  /\ nOps' = nOps + 1
        /\ notifications' = IF index = 0 THEN notifications
                            ELSE [notifications EXCEPT ![index].read = TRUE]
        /\ UNCHANGED <<wsClients, readyState, inbox, subAt, nAppended, hubRemoved, sendFails>>

\* DELETE /api/notifications
NotifClear ==
    /\ nOps' = nOps + 1
    /\ notifications' = <<>>
    /\ hubRemoved' = (hubRemoved \/ notifications # <<>>)
    /\ UNCHANGED <<wsClients, readyState, inbox, subAt, nAppended, sendFails>>

ListReplyCountsAll ==
    [notifications |-> notifications,
     unreadCount |-> Len(notifications),
     total |-> Len(notifications)]

\* GET /api/notifications
ListReply ==
    [notifications |-> notifications,
     unreadCount |-> Cardinality({i \in 1..Len(notifications) : ~notifications[i].read}),
     total |-> Len(notifications)]

\* notificationWss.on('connection'): register the channel, send the priming message
WsConnect(c) ==
    /\ readyState[c] = 0
    /\ readyState' = [readyState EXCEPT ![c] = WS_OPEN]
    /\ wsClients' = Append(wsClients, c)
    /\ inbox' = [inbox EXCEPT ![c] = Append(@, InitMsg(notifications))]
    /\ subAt' = [subAt EXCEPT ![c] = nAppended]
    /\ UNCHANGED <<notifications, nAppended, nOps, hubRemoved, sendFails>>

\* the peer starts closing or the socket drops: readyState leaves OPEN before
\* the 'close' event is emitted
WsBeginClose(c) ==
    /\ readyState[c] = WS_OPEN
    /\ readyState' = [readyState EXCEPT ![c] = WS_CLOSING]
    /\ UNCHANGED <<notifications, wsClients, inbox, subAt, nAppended, nOps, hubRemoved, sendFails>>

\* Array.prototype.indexOf, 0 for -1
RECURSIVE IndexOfFrom(_, _, _)
IndexOfFrom(s, x, i) ==
    IF i > Len(s) THEN 0
    ELSE IF s[i] = x THEN i
    ELSE IndexOfFrom(s, x, i + 1)

IndexOf(s, x) == IndexOfFrom(s, x, 1)

CloseEventKeepsClient(c) ==
    /\ readyState[c] = WS_CLOSING
    /\ readyState' = [readyState EXCEPT ![c] = WS_CLOSED]
    /\ UNCHANGED <<notifications, wsClients, inbox, subAt, nAppended, nOps, hubRemoved, sendFails>>

\* ws.on('close'): index = wsClients.indexOf(ws); if (index > -1) splice(index, 1)
WsCloseEvent(c) ==
    /\ readyState[c] = WS_CLOSING
    /\ readyState' = [readyState EXCEPT ![c] = WS_CLOSED]
    /\ wsClients' = IF IndexOf(wsClients, c) > 0
                    THEN Splice1(wsClients, IndexOf(wsClients, c))
                    ELSE wsClients
    /\ UNCHANGED <<notifications, inbox, subAt, nAppended, nOps, hubRemoved, sendFails>>

\* the socket of an open channel gets into a state in which client.send throws
SendBreaks(c) ==
    /\ readyState[c] = WS_OPEN
    /\ ~sendFails[c]
    /\ sendFails' = [sendFails EXCEPT ![c] = TRUE]
    /\ UNCHANGED <<notifications, wsClients, readyState, inbox, subAt, nAppended, nOps,
                   hubRemoved>>

\* time passes
Tick ==
    /\ now + TickMs <= MaxTime
    /\ now' = now + TickMs

----------------------------------------------------------------------------
(* Job Orchestrator *)

\* Math.round of a non-negative quotient n / d
Round(n, d) == (2 * n + d) \div (2 * d)

ProgressNoCap(estimatedSize, currentSize) ==
    IF estimatedSize > 0 THEN Round(currentSize * 100, estimatedSize) ELSE 0

\* estimatedSize > 0 ? Math.min(99, Math.round((currentSize / estimatedSize) * 100)) : 0
Progress(estimatedSize, currentSize) ==
    IF estimatedSize > 0
    THEN Min(MAX_PROGRESS, Round(currentSize * 100, estimatedSize))
    ELSE 0

\* The status records written to the sidecar. startTime and completedTime (the time
\* of the write) are left out; a field the record does not have is Undefined
\* (NoSize for a number).
InitialStatus(e) ==
    [status |-> "in_progress", progress |-> 0, estimatedSize |-> e,
     currentSize |-> 0, error |-> Undefined, notes |-> Undefined]

ProgressStatus(e, cur) ==
    [status |-> "in_progress", progress |-> Progress(e, cur), estimatedSize |-> e,
     currentSize |-> cur, error |-> Undefined, notes |-> Undefined]

CompletedStatus(e, cur) ==
    [status |-> "completed", progress |-> 100, estimatedSize |-> e,
     currentSize |-> cur, error |-> Undefined, notes |-> Undefined]

FailedStatus(msg) ==
    [status |-> "failed", progress |-> 0, estimatedSize |-> NoSize,
     currentSize |-> NoSize, error |-> msg, notes |-> Undefined]

\* The events the backup task hands to broadcastNotification. The backupId or the
\* error text inside `message` is the field job / message; seq = 0: not an append.
BackupCompletedEvent(id) ==
    [id |-> now, type |-> "success", title |-> "Backup Completed",
     message |-> "completed successfully", timestamp |-> now, read |-> FALSE,
     seq |-> 0, job |-> id]

BackupFailedEvent(msg) ==
    [id |-> now, type |-> "error", title |-> "Backup Failed",
     message |-> msg, timestamp |-> now, read |-> FALSE,
     seq |-> 0, job |-> NoJob]

\* POST /api/backups/create up to `await execAsync(sizeCmd)`: the id is fixed here
CreateBegin(r) ==
    /\ pc[r] = "idle"
    /\ IF r = 1 THEN TRUE ELSE pc[r - 1] # "idle"
    /\ pc' = [pc EXCEPT ![r] = "estimating"]
    /\ jobOf' = [jobOf EXCEPT ![r] = now \div 1000]
    /\ UNCHANGED <<est, lastUpdateTime, monitor, proc, linked, fileVars>>
    /\ UNCHANGED <<exitCode, restore, deleted>>

ReplyWithoutRecord(r, e) ==
    /\ pc[r] = "estimating"
    /\ pc' = [pc EXCEPT ![r] = "queued"]
    /\ est' = [est EXCEPT ![r] = e]
    /\ UNCHANGED <<jobOf, lastUpdateTime, monitor, proc, linked, fileVars, exitCode, restore, deleted>>

\* POST /api/backups/create after the await: estimatedSize (0 when du failed or
\* printed no number), the initial status, the reply, setImmediate
CreateReply(r, e) ==
    /\ pc[r] = "estimating"
    /\ pc' = [pc EXCEPT ![r] = "queued"]
    /\ est' = [est EXCEPT ![r] = e]
    /\ sidecar' = [sidecar EXCEPT ![jobOf[r]] = InitialStatus(e)]
    /\ UNCHANGED <<jobOf, lastUpdateTime, monitor, proc, linked, artifact>>
    /\ UNCHANGED <<exitCode, restore, deleted>>

\* the setImmediate callback up to its await: spawn, lastUpdateTime, setInterval
TaskStart(r) ==
    /\ pc[r] = "queued"
    /\ pc' = [pc EXCEPT ![r] = "running"]
    /\ proc' = [proc EXCEPT ![r] = "spawned"]
    /\ lastUpdateTime' = [lastUpdateTime EXCEPT ![r] = now]
    /\ monitor' = [monitor EXCEPT ![r] = TRUE]
    /\ UNCHANGED <<jobOf, est, linked, fileVars>>
    /\ UNCHANGED <<exitCode, restore, deleted>>

\* tar -czf opens backupPath: the file is created, or cut to length 0 if it exists
TarOpen(r) ==
    /\ proc[r] = "spawned"
    /\ proc' = [proc EXCEPT ![r] = "writing"]
    /\ linked' = [linked EXCEPT ![r] = TRUE]
    /\ artifact' = [artifact EXCEPT ![jobOf[r]] = 0]
    /\ UNCHANGED <<pc, jobOf, est, lastUpdateTime, monitor, sidecar>>
    /\ UNCHANGED <<exitCode, restore, deleted>>

\* tar writes: the file at backupPath grows (a deleted file grows out of sight)
TarWrite(r, size) ==
    /\ proc[r] = "writing"
    /\ linked[r]
    /\ size > artifact[jobOf[r]]
    /\ artifact' = [artifact EXCEPT ![jobOf[r]] = size]
    /\ UNCHANGED <<taskVars, sidecar>>

\* the setInterval callback
MonitorTick(r) ==
    /\ monitor[r]
    /\ IF artifact[jobOf[r]] # NoSize /\ now - lastUpdateTime[r] > UPDATE_MS
       THEN /\ sidecar' = [sidecar EXCEPT ![jobOf[r]] =
                              ProgressStatus(est[r], artifact[jobOf[r]])]
            /\ lastUpdateTime' = [lastUpdateTime EXCEPT ![r] = now]
       ELSE UNCHANGED <<sidecar, lastUpdateTime>>
    /\ UNCHANGED <<pc, jobOf, est, monitor, proc, linked, artifact>>
    /\ UNCHANGED <<exitCode, restore, deleted>>

SettleWithoutCatch(r, failure) ==
    IF failure = Undefined /\ artifact[jobOf[r]] # NoSize
    THEN /\ sidecar' = [sidecar EXCEPT ![jobOf[r]] =
                           CompletedStatus(est[r], artifact[jobOf[r]])]
         /\ inbox' = Broadcast(inbox, BackupCompletedEvent(jobOf[r]))
    ELSE UNCHANGED <<sidecar, inbox>>

\* what the task does once the awaited promise settled: `failure` is Undefined when
\* it resolved, else the message of the rejection. fs.statSync(backupPath) throws
\* when the artifact is gone, which lands in the same catch block.
Settle(r, failure) ==
    LET id == jobOf[r]
        error == IF failure # Undefined THEN failure
                 ELSE IF artifact[id] = NoSize THEN "ENOENT"
                 ELSE Undefined
    IN  IF error = Undefined
        THEN /\ sidecar' = [sidecar EXCEPT ![id] = CompletedStatus(est[r], artifact[id])]
             /\ inbox' = Broadcast(inbox, BackupCompletedEvent(id))
        ELSE /\ sidecar' = [sidecar EXCEPT ![id] = FailedStatus(error)]
             /\ inbox' = Broadcast(inbox, BackupFailedEvent(error))

\* child.on('close') and the rest of the task: clearInterval, then completed for
\* exit code 0 or 1, failed for any other. tar that could not open its output
\* exits with 2.
ChildClose(r, code) ==
    /\ proc[r] \in {"spawned", "writing"}
    /\ proc[r] = "spawned" => code = 2
    /\ pc[r] = "running"
    /\ proc' = [proc EXCEPT ![r] = "exited"]
    /\ monitor' = [monitor EXCEPT ![r] = FALSE]
    /\ pc' = [pc EXCEPT ![r] = "done"]
    /\ Settle(r, IF code = 0 \/ code = 1 THEN Undefined ELSE "tar exited")
    /\ UNCHANGED <<jobOf, est, lastUpdateTime, linked, artifact>>
    /\ exitCode' = [exitCode EXCEPT ![r] = code]
    /\ UNCHANGED <<restore, deleted>>

\* child.on('error') (bash could not be spawned) and the rest of the task: the
\* promise is rejected, the interval is not cleared here. Node emits the 'error' of
\* a failed spawn in the next tick after spawn(), before any time has passed.
ChildError(r) ==
    /\ proc[r] = "spawned"
    /\ now = lastUpdateTime[r]
    /\ pc[r] = "running"
    /\ proc' = [proc EXCEPT ![r] = "error"]
    /\ pc' = [pc EXCEPT ![r] = "done"]
    /\ Settle(r, "spawn error")
    /\ UNCHANGED <<jobOf, est, lastUpdateTime, monitor, linked, artifact>>
    /\ exitCode' = [exitCode EXCEPT ![r] = SpawnError]
    /\ UNCHANGED <<restore, deleted>>

\* child.on('close') after 'error': clearInterval; the promise is settled already
ChildCloseAfterError(r) ==
    /\ proc[r] = "error"
    /\ proc' = [proc EXCEPT ![r] = "exited"]
    /\ monitor' = [monitor EXCEPT ![r] = FALSE]
    /\ UNCHANGED <<pc, jobOf, est, lastUpdateTime, linked, fileVars>>
    /\ UNCHANGED <<exitCode, restore, deleted>>

\* fs.existsSync(statusFile)
Exists(rec) == rec # NoFile

\* JSON.parse(fs.readFileSync(statusFile, 'utf8')) returns (does not throw)
Parses(rec) == rec # Corrupt

\* GET /api/backups/:id/status: the reply. 404 without status file; a JSON.parse
\* that throws lands in the catch block, which answers 500.
StatusReply(id) ==
    IF ~Exists(sidecar[id]) THEN [code |-> 404, body |-> NoFile]
    ELSE IF ~Parses(sidecar[id]) THEN [code |-> 500, body |-> NoFile]
    ELSE [code |-> 200, body |-> sidecar[id]]

\* GET /api/backups, the entry of one *.tar.gz file: status is the sidecar's status
\* or 'completed', notes the sidecar's notes or '' (created is left out)
BackupEntry(id) ==
    [id |-> id,
     size |-> artifact[id],
     status |-> IF Exists(sidecar[id]) /\ Parses(sidecar[id])
                THEN sidecar[id].status ELSE "completed",
     notes |-> IF Exists(sidecar[id]) /\ Parses(sidecar[id])
                  /\ sidecar[id].notes # Undefined
               THEN sidecar[id].notes ELSE ""]

\* GET /api/backups: one entry per artifact (the reply is sorted by the files'
\* birth time, which the model does not keep: the entries are given as a set)
ListBackups == {BackupEntry(id) : id \in {i \in JobIds : artifact[i] # NoSize}}

\* PUT /api/backups/:id/notes: the status code of the reply
NotesCode(id) ==
    IF ~Exists(sidecar[id]) THEN 404
    ELSE IF ~Parses(sidecar[id]) THEN 500
    ELSE 200

\* PUT /api/backups/:id/notes: the status code of the reply and the status files
\* it leaves (read, set notes, write back; nothing is written unless the file
\* exists and parses)
NotesResult(id, text) ==
    [code |-> NotesCode(id),
     sidecar |-> IF NotesCode(id) = 200
                 THEN [sidecar EXCEPT ![id].notes = text]
                 ELSE sidecar]

\* PUT /api/backups/:id/notes; text is `notes || ''`
SetNotes(id, text) ==
    /\ sidecar' = NotesResult(id, text).sidecar
    /\ UNCHANGED <<taskVars, artifact>>

\* DELETE /api/backups/:id: the status code of the reply and the files it leaves.
\* Only the existence of the artifact is looked at; the sidecar is unlinked if there.
DeleteResult(id) ==
    IF artifact[id] = NoSize
    THEN [code |-> 404, artifact |-> artifact, sidecar |-> sidecar]
    ELSE [code |-> 200,
          artifact |-> [artifact EXCEPT ![id] = NoSize],
          sidecar |-> [sidecar EXCEPT ![id] = NoFile]]

\* DELETE /api/backups/:id; a tar still writing the unlinked file writes out of sight
DeleteBackup(id) ==
    /\ artifact' = DeleteResult(id).artifact
    /\ sidecar' = DeleteResult(id).sidecar
    /\ linked' = IF DeleteResult(id).code = 200
                 THEN [r \in Reqs |-> linked[r] /\ jobOf[r] # id]
                 ELSE linked
    /\ deleted' = IF DeleteResult(id).code = 200 THEN deleted \cup {id} ELSE deleted
    /\ UNCHANGED <<pc, jobOf, est, lastUpdateTime, monitor, proc>>
    /\ UNCHANGED <<exitCode, restore>>

\* The event the restore task hands to broadcastNotification
RestoreFailedEvent(msg) ==
    [id |-> now, type |-> "error", title |-> "Restore Failed",
     message |-> msg, timestamp |-> now, read |-> FALSE,
     seq |-> 0, job |-> NoJob]

\* POST /api/backups/:id/restore: 404 without artifact, else the reply 'Restore
\* process started' and setTimeout(..., 2000)
RestoreBegin(id) ==
    /\ restore.pc = "idle"
    /\ restore' = [pc |-> IF artifact[id] = NoSize THEN "rejected" ELSE "accepted",
                   id |-> id, at |-> now]
    /\ UNCHANGED <<pc, jobOf, est, lastUpdateTime, monitor, proc, linked, exitCode, deleted, fileVars>>

RestoreAtOnce ==
    /\ restore.pc = "accepted"
    /\ restore' = [restore EXCEPT !.pc = "extracting"]
    /\ UNCHANGED <<pc, jobOf, est, lastUpdateTime, monitor, proc, linked, exitCode, deleted, fileVars>>

\* the setTimeout callback, not before the delay has passed: execAsync starts
\* `tar -xzf ... && systemctl reboot`
RestoreTimer ==
    /\ restore.pc = "accepted"
    /\ now - restore.at >= GRACE_MS
    /\ restore' = [restore EXCEPT !.pc = "extracting"]
    /\ UNCHANGED <<pc, jobOf, est, lastUpdateTime, monitor, proc, linked, exitCode, deleted, fileVars>>

\* the command fails (tar cannot read the archive, which may be gone by now, or
\* the reboot is refused): the catch block broadcasts "Restore Failed"
RestoreFail ==
    /\ restore.pc = "extracting"
    /\ restore' = [restore EXCEPT !.pc = "failed"]
    /\ inbox' = Broadcast(inbox, RestoreFailedEvent("Command failed"))
    /\ UNCHANGED <<pc, jobOf, est, lastUpdateTime, monitor, proc, linked, exitCode, deleted, fileVars>>

\* the command succeeds: the archive is extracted and the system reboots, which
\* ends the program
RestoreReboot ==
    /\ restore.pc = "extracting"
    /\ artifact[restore.id] # NoSize
    /\ restore' = [restore EXCEPT !.pc = "rebooted"]
    /\ UNCHANGED <<pc, jobOf, est, lastUpdateTime, monitor, proc, linked, exitCode, deleted, fileVars>>

----------------------------------------------------------------------------
(* Session Bridge *)

\* a message of type 'output': a chunk of the shell's output (n counts the chunks),
\* the "Session ended" notice, or the "Could not create terminal session" notice
OutputMsg(text, n) == [type |-> "output", text |-> text, n |-> n]

\* ws.send: the message goes out on an open channel; on a channel that is closing
\* or closed it is dropped (the handlers catch what send may throw)
WsSend(s, m) == IF tws[s] = WS_OPEN THEN [tout EXCEPT ![s] = Append(@, m)] ELSE tout

\* ws.close(): an open channel starts closing
WsClose(s) == IF tws[s] = WS_OPEN THEN [tws EXCEPT ![s] = WS_CLOSING] ELSE tws

KillNothing(s) == hup

\* ptyProcess.kill(): SIGHUP to the process if it still runs
Kill(s) == IF pty[s] = "alive" THEN [hup EXCEPT ![s] = TRUE] ELSE hup

\* wss.on('connection'), pty.spawn succeeded: the handlers are registered
TermConnect(s) ==
    /\ tws[s] = 0
    /\ \A q \in Sessions : q < s => tws[q] # 0
    /\ tws' = [tws EXCEPT ![s] = WS_OPEN]
    /\ pty' = [pty EXCEPT ![s] = "alive"]
    /\ UNCHANGED <<hup, tout, produced, killCalls, closeCalls, openAtExit>>
    /\ UNCHANGED inVars

\* wss.on('connection'), pty.spawn threw: the catch block sends the notice and
\* closes; no handler is registered
TermConnectFail(s) ==
    /\ tws[s] = 0
    /\ \A q \in Sessions : q < s => tws[q] # 0
    /\ tout' = [tout EXCEPT ![s] = Append(@, OutputMsg("Could not create terminal session", 0))]
    /\ tws' = [tws EXCEPT ![s] = WS_CLOSING]
    /\ closeCalls' = [closeCalls EXCEPT ![s] = @ + 1]
    /\ UNCHANGED <<pty, hup, produced, killCalls, openAtExit>>
    /\ UNCHANGED inVars

\* ptyProcess.onData: node-pty delivers all output before the exit event
PtyData(s) ==
    /\ pty[s] = "alive"
    /\ produced[s] < MaxOut
    /\ produced' = [produced EXCEPT ![s] = @ + 1]
    /\ tout' = WsSend(s, OutputMsg("data", produced[s] + 1))
    /\ UNCHANGED <<tws, pty, hup, killCalls, closeCalls, openAtExit>>
    /\ UNCHANGED inVars

OnExitCloseFirst(s) ==
    /\ pty[s] = "alive"
    /\ pty' = [pty EXCEPT ![s] = "exited"]
    /\ openAtExit' = [openAtExit EXCEPT ![s] = (tws[s] = WS_OPEN)]
    /\ tws' = WsClose(s)
    /\ tout' = tout
    /\ closeCalls' = [closeCalls EXCEPT ![s] = @ + 1]
    /\ UNCHANGED <<hup, produced, killCalls>>
    /\ UNCHANGED inVars

\* ptyProcess.onExit: send the "Session ended" notice, then ws.close()
OnExit(s) ==
    /\ pty[s] = "alive"
    /\ pty' = [pty EXCEPT ![s] = "exited"]
    /\ openAtExit' = [openAtExit EXCEPT ![s] = (tws[s] = WS_OPEN)]
    /\ tout' = WsSend(s, OutputMsg("Session ended", produced[s]))
    /\ tws' = WsClose(s)
    /\ closeCalls' = [closeCalls EXCEPT ![s] = @ + 1]
    /\ UNCHANGED <<hup, produced, killCalls>>
    /\ UNCHANGED inVars

\* the messages a client sends: what JSON.parse and data.type make of them
MsgKinds == {"input", "resize", "garbage"}

ProcOfLastSpawned(s) ==
    CHOOSE q \in Sessions : pty[q] # "none" /\ \A o \in Sessions : pty[o] # "none" => o <= q

\* `let ptyProcess` is a local of the connection callback: the handlers of
\* connection s use the process spawned for s (processes are numbered like the
\* connections that spawned them)
ProcOf(s) == s

InputTwice(log, d) == log \o <<d, d>>

\* ptyProcess.write(data.data): the data goes to the process as it is
PtyWrite(log, d) == Append(log, d)

\* what JSON.parse, ptyProcess.write and ptyProcess.resize may throw: a message
\* that does not parse always throws, a write to a running process never does,
\* a resize (whose cols and rows come from the client) and any call on a process
\* that has exited may or may not
MayThrow(s, kind) ==
    IF kind = "garbage" THEN {TRUE}
    ELSE IF kind = "input" /\ pty[s] = "alive" THEN {FALSE}
    ELSE BOOLEAN

Rethrow(thrown) == uncaught \/ thrown

\* try { ... } catch (err) { console.error(...) } around the whole handler body
Catch(thrown) == uncaught

\* ws.on('message'): JSON.parse (a message that does not parse throws into the
\* catch), 'input' is written to the process, 'resize' resizes it, anything else
\* is ignored. The k-th message of channel s carries the data <<s, k>>. A write
\* to a process that has exited does not reach it.
TermMessage(s, kind) ==
    /\ pty[s] # "none"
    /\ tws[s] = WS_OPEN \/ (tws[s] = WS_CLOSING /\ pty[s] = "exited")
    /\ Len(tin[s]) < MaxIn
    /\ \E thrown \in MayThrow(s, kind) :
        LET d == <<s, Len(tin[s]) + 1>>
        IN  /\ tin' = [tin EXCEPT ![s] =
                          Append(@, [kind |-> kind, data |-> d,
                                     active |-> (pty[s] = "alive" /\ tws[s] = WS_OPEN),
                                     threw |-> thrown])]
            /\ written' = IF kind = "input" /\ pty[ProcOf(s)] = "alive"
                          THEN [written EXCEPT ![ProcOf(s)] = PtyWrite(@, d)]
                          ELSE written
            /\ uncaught' = Catch(thrown)
    /\ UNCHANGED <<tws, pty, hup, tout, produced, killCalls, closeCalls, openAtExit>>

\* the shell ends by itself (exit, end of input)
PtyExit(s) == ~hup[s] /\ OnExit(s)

\* the shell ends on the signal kill() sent
PtyHupExit(s) == hup[s] /\ OnExit(s)

\* the peer closes, or the connection drops: the channel leaves OPEN
TermBeginClose(s) ==
    /\ tws[s] = WS_OPEN
    /\ tws' = [tws EXCEPT ![s] = WS_CLOSING]
    /\ UNCHANGED <<pty, hup, tout, produced, killCalls, closeCalls, openAtExit>>
    /\ UNCHANGED inVars

\* ws.on('error'): kill(); the ws library closes the channel after an error, its
\* 'close' event follows
TermWsError(s) ==
    /\ tws[s] = WS_OPEN
    /\ pty[s] # "none"
    /\ tws' = [tws EXCEPT ![s] = WS_CLOSING]
    /\ hup' = Kill(s)
    /\ killCalls' = [killCalls EXCEPT ![s] = @ + 1]
    /\ UNCHANGED <<pty, tout, produced, closeCalls, openAtExit>>
    /\ UNCHANGED inVars

\* ws.on('close'): kill(). After a failed spawn there is no handler.
TermCloseEvent(s) ==
    /\ tws[s] = WS_CLOSING
    /\ tws' = [tws EXCEPT ![s] = WS_CLOSED]
    /\ IF pty[s] # "none"
       THEN /\ hup' = Kill(s)
            /\ killCalls' = [killCalls EXCEPT ![s] = @ + 1]
       ELSE UNCHANGED <<hup, killCalls>>
    /\ UNCHANGED <<pty, tout, produced, closeCalls, openAtExit>>
    /\ UNCHANGED inVars

----------------------------------------------------------------------------
(* Admin UI: the login session (AuthProvider) *)

HourMs == SESSION_DURATION \div 8

\* the page is loaded: useState(false), then the effect reads the stored session
\* and accepts it when it is younger than SESSION_DURATION, else removes it
AuthMount ==
    /\ page = "closed"
    /\ page' = "open"
    /\ IF stored = NoSession
       THEN UNCHANGED <<stored, isAuthenticated>>
       ELSE IF now - stored < SESSION_DURATION
            THEN isAuthenticated' = TRUE /\ UNCHANGED stored
            ELSE stored' = NoSession /\ UNCHANGED isAuthenticated

\* the page is closed or reloaded: the provider's state is gone, localStorage stays
AuthUnmount ==
    /\ page = "open"
    /\ page' = "closed"
    /\ isAuthenticated' = FALSE
    /\ UNCHANGED stored

\* login(username, password) on the login page; valid says whether they match
AuthLogin(valid) ==
    /\ page = "open"
    /\ ~isAuthenticated
    /\ IF valid
       THEN stored' = now /\ isAuthenticated' = TRUE
       ELSE UNCHANGED <<stored, isAuthenticated>>
    /\ UNCHANGED page

\* logout()
AuthLogout ==
    /\ page = "open"
    /\ isAuthenticated
    /\ stored' = NoSession
    /\ isAuthenticated' = FALSE
    /\ UNCHANGED page

\* an hour passes
AuthHour ==
    /\ now + HourMs <= MaxHours * HourMs
    /\ now' = now + HourMs

----------------------------------------------------------------------------
(* Admin-panel users (admin_users.json) *)

\* the usernames and roles the requests carry
Names == {"admin", "ann", "bob"}
Roles == {"admin", "user"}

\* getAdminUsers without a file: the default admin user, id '1'
DefaultAdmin == [id |-> 1, username |-> "admin", role |-> "admin", password |-> "default"]

\* users.findIndex(u => u.id === id), 0 for -1 (also the user users.find gives)
UserIndex(id) == FindIndex(users, id)

\* POST /api/users/admin-panel: the status code of the reply and the users the
\* file holds afterwards; saved says whether saveAdminUsers could write the file
CreateUserResult(username, saved) ==
    IF \E i \in 1..Len(users) : users[i].username = username
    THEN [code |-> 409, users |-> users]
    ELSE IF saved
    THEN [code |-> 201,
          users |-> Append(users, [id |-> now, username |-> username,
                                   role |-> "user", password |-> "given"])]
    ELSE [code |-> 500, users |-> users]

\* PUT /api/users/admin-panel/:id with a username and a role in the body
UpdateUserResult(id, username, role, saved) ==
    LET i == UserIndex(id)
    IN  IF i = 0 THEN [code |-> 404, users |-> users]
        ELSE IF /\ username # users[i].username
                /\ \E j \in 1..Len(users) :
                      users[j].username = username /\ users[j].id # id
        THEN [code |-> 409, users |-> users]
        ELSE IF saved
        THEN [code |-> 200,
              users |-> [users EXCEPT ![i].username = username, ![i].role = role]]
        ELSE [code |-> 500, users |-> users]

\* PUT /api/users/admin-panel/:id/password
PasswordResult(id, saved) ==
    LET i == UserIndex(id)
    IN  IF i = 0 THEN [code |-> 404, users |-> users]
        ELSE IF saved
        THEN [code |-> 200, users |-> [users EXCEPT ![i].password = "changed"]]
        ELSE [code |-> 500, users |-> users]

\* DELETE /api/users/admin-panel/:id: the last admin cannot be deleted
DeleteUserResult(id, saved) ==
    LET i == UserIndex(id)
    IN  IF i = 0 THEN [code |-> 404, users |-> users]
        ELSE IF /\ users[i].role = "admin"
                /\ Cardinality({j \in 1..Len(users) : users[j].role = "admin"}) = 1
        THEN [code |-> 403, users |-> users]
        ELSE IF saved
        THEN [code |-> 200, users |-> Splice1(users, i)]
        ELSE [code |-> 500, users |-> users]

UserIds == {users[i].id : i \in 1..Len(users)}

CreateUser(username, saved) ==
    /\ Len(users) < MaxUsers
    /\ users' = CreateUserResult(username, saved).users

UpdateUser(id, username, role, saved) == users' = UpdateUserResult(id, username, role, saved).users

ChangePassword(id, saved) == users' = PasswordResult(id, saved).users

DeleteUser(id, saved) == users' = DeleteUserResult(id, saved).users

----------------------------------------------------------------------------
(* Admin UI: the Notifications component, on observer channel Viewer *)

Viewer == 1

\* ws.onmessage: the priming message replaces the list and recounts, a push is
\* put in front of the list and counted as unread. (The fetch of the mount
\* effect is left out: its reply holds what the priming message holds.)
ViewReceive ==
    /\ viewSeen < Len(inbox[Viewer])
    /\ LET msg == inbox[Viewer][viewSeen + 1]
       IN  IF msg.type = "notifications_init"
           THEN /\ view' = msg.data
                /\ viewUnread' = Cardinality({i \in 1..Len(msg.data) : ~msg.data[i].read})
           ELSE /\ view' = <<msg.data>> \o view
                /\ viewUnread' = viewUnread + 1
    /\ viewSeen' = viewSeen + 1

\* notifications.find(n => n.id === id)?.read
ViewFindRead(id) ==
    IF FindIndex(view, id) = 0 THEN FALSE ELSE view[FindIndex(view, id)].read

\* handleDelete(id) after DELETE /api/notifications/:id answered; ok says whether
\* the answer was a success
ViewDeleted(id, ok) ==
    /\ IF ok
       THEN /\ view' = SelectSeq(view, LAMBDA n : n.id # id)
            /\ viewUnread' = IF ViewFindRead(id) THEN viewUnread
                             ELSE IF viewUnread > 0 THEN viewUnread - 1 ELSE 0
       ELSE UNCHANGED <<view, viewUnread>>
    /\ UNCHANGED viewSeen

\* handleMarkRead(id) after POST /api/notifications/mark-read answered
ViewMarkedRead(id) ==
    /\ view' = [i \in 1..Len(view) |->
                   IF view[i].id = id THEN [view[i] EXCEPT !.read = TRUE] ELSE view[i]]
    /\ viewUnread' = IF viewUnread > 0 THEN viewUnread - 1 ELSE 0
    /\ UNCHANGED viewSeen

\* handleClearAll after DELETE /api/notifications answered
ViewCleared ==
    /\ view' = <<>>
    /\ viewUnread' = 0
    /\ UNCHANGED viewSeen

----------------------------------------------------------------------------
\* everything but the backup directory
InitButFiles ==
    /\ now = 0
    /\ notifications = <<>>
    /\ wsClients = <<>>
    /\ readyState = [c \in Clients |-> 0]
    /\ inbox = [c \in Clients |-> <<>>]
    /\ subAt = [c \in Clients |-> 0]
    /\ nAppended = 0
    /\ nOps = 0
    /\ hubRemoved = FALSE
    /\ sendFails = [c \in Clients |-> FALSE]
    /\ pc = [r \in Reqs |-> "idle"]
    /\ jobOf = [r \in Reqs |-> NoJob]
    /\ est = [r \in Reqs |-> 0]
    /\ lastUpdateTime = [r \in Reqs |-> 0]
    /\ monitor = [r \in Reqs |-> FALSE]
    /\ proc = [r \in Reqs |-> "none"]
    /\ linked = [r \in Reqs |-> FALSE]
    /\ exitCode = [r \in Reqs |-> NoCode]
    /\ restore = [pc |-> "idle", id |-> NoJob, at |-> 0]
    /\ deleted = {}
    /\ tws = [s \in Sessions |-> 0]
    /\ pty = [s \in Sessions |-> "none"]
    /\ hup = [s \in Sessions |-> FALSE]
    /\ tout = [s \in Sessions |-> <<>>]
    /\ produced = [s \in Sessions |-> 0]
    /\ killCalls = [s \in Sessions |-> 0]
    /\ closeCalls = [s \in Sessions |-> 0]
    /\ openAtExit = [s \in Sessions |-> FALSE]
    /\ tin = [s \in Sessions |-> <<>>]
    /\ written = [s \in Sessions |-> <<>>]
    /\ uncaught = FALSE
    /\ page = "closed"
    /\ stored = NoSession
    /\ isAuthenticated = FALSE
    /\ users = <<DefaultAdmin>>
    /\ view = <<>>
    /\ viewUnread = 0
    /\ viewSeen = 0

\* the program starts; no backup of the ids explored exists
Init ==
    /\ InitButFiles
    /\ artifact = [id \in JobIds |-> NoSize]
    /\ sidecar = [id \in JobIds |-> NoFile]

\* the callers of addNotification: the threshold warnings of GET /api/system/stats
StatsWarning ==
    AddNotification("warning", "CPU Usage Critical", "cpu")

\* GET /api/system/stats with two thresholds passed: two addNotification calls in
\* one run of the handler, with nothing between them (both read the same Date.now())
StatsTwoWarnings ==
    LET n1 == NewNotification("warning", "CPU Usage Critical", "cpu")
        n2 == [NewNotification("warning", "Memory Usage Critical", "memory")
                  EXCEPT !.seq = nAppended + 2]
    IN  /\ notifications' = AddToLog(AddToLog(notifications, n1), n2)
        /\ inbox' = Broadcast(Broadcast(inbox, n1), n2)
        /\ nAppended' = nAppended + 2
        /\ UNCHANGED <<wsClients, readyState, subAt, nOps, hubRemoved, sendFails>>

LogIds == {notifications[i].id : i \in 1..Len(notifications)}

(* SpecFill: the log is filled past its capacity *)
FillAppend ==
    /\ nAppended < FillAppends
    /\ StatsWarning
    /\ UNCHANGED <<now, jobVars, termVars, panelVars>>

FillDelete ==
    /\ nOps < FillOps
    /\ \E id \in LogIds : NotifDelete(id)
    /\ UNCHANGED <<now, jobVars, termVars, panelVars>>

FillMarkRead ==
    /\ nOps < FillOps
    /\ (NotifMarkAllRead \/ \E id \in LogIds : NotifMarkRead(id))
    /\ UNCHANGED <<now, jobVars, termVars, panelVars>>

FillClear ==
    /\ nOps < FillOps
    /\ NotifClear
    /\ UNCHANGED <<now, jobVars, termVars, panelVars>>

\* the clock advances between two requests (counted with the requests)
FillTick ==
    /\ nOps < FillOps
    /\ Tick
    /\ nOps' = nOps + 1
    /\ UNCHANGED <<notifications, wsClients, readyState, inbox, subAt, nAppended, hubRemoved, sendFails>>
    /\ UNCHANGED <<jobVars, termVars, panelVars>>

FillNext == FillAppend \/ FillDelete \/ FillMarkRead \/ FillClear \/ FillTick

SpecFill == Init /\ [][FillNext]_vars

(* SpecHub: the hub and its observers *)
HubTick == Tick /\ UNCHANGED <<hubVars, jobVars, termVars, panelVars>>

HubAppend ==
    /\ nAppended < MaxAppend
    /\ StatsWarning
    /\ UNCHANGED <<now, jobVars, termVars, panelVars>>

HubAppendTwo ==
    /\ nAppended + 2 <= MaxAppend
    /\ StatsTwoWarnings
    /\ UNCHANGED <<now, jobVars, termVars, panelVars>>

HubDelete ==
    /\ nOps < MaxOps
    /\ \E id \in Times : NotifDelete(id)
    /\ UNCHANGED <<now, jobVars, termVars, panelVars>>

HubMarkRead ==
    /\ nOps < MaxOps
    /\ (NotifMarkAllRead \/ \E id \in Times : NotifMarkRead(id))
    /\ UNCHANGED <<now, jobVars, termVars, panelVars>>

HubClear ==
    /\ nOps < MaxOps
    /\ NotifClear
    /\ UNCHANGED <<now, jobVars, termVars, panelVars>>

\* observers are interchangeable: they connect in the order of their numbers
HubConnect ==
    \E c \in Clients :
        /\ \A d \in Clients : d < c => readyState[d] # 0
        /\ WsConnect(c)
        /\ UNCHANGED <<now, jobVars, termVars, panelVars>>

HubBeginClose == \E c \in Clients : WsBeginClose(c) /\ UNCHANGED <<now, jobVars, termVars, panelVars>>

HubCloseEvent == \E c \in Clients : WsCloseEvent(c) /\ UNCHANGED <<now, jobVars, termVars, panelVars>>

HubNext ==
    \/ HubTick
    \/ HubAppend
    \/ HubAppendTwo
    \/ HubDelete
    \/ HubMarkRead
    \/ HubClear
    \/ HubConnect
    \/ HubBeginClose
    \/ HubCloseEvent

SpecHub == Init /\ [][HubNext]_vars

(* SpecJobs: backup jobs and the requests about them *)
Estimates == {0, EstSize}
Sizes == 1..MaxSize
Notes == {"keep"}

\* the 'close' event of a child that failed to spawn follows its 'error' event at
\* once: no time passes in between
NoCloseDue == \A r \in Reqs : proc[r] # "error"

JobsTick == NoCloseDue /\ Tick /\ UNCHANGED <<hubVars, jobVars, termVars, panelVars>>

JobsCreateBegin == \E r \in Reqs : CreateBegin(r) /\ UNCHANGED <<now, hubVars, termVars, panelVars>>

JobsCreateReply ==
    \E r \in Reqs, e \in Estimates : CreateReply(r, e) /\ UNCHANGED <<now, hubVars, termVars, panelVars>>

JobsTaskStart == \E r \in Reqs : TaskStart(r) /\ UNCHANGED <<now, hubVars, termVars, panelVars>>

JobsTarOpen == \E r \in Reqs : TarOpen(r) /\ UNCHANGED <<now, hubVars, termVars, panelVars>>

JobsTarWrite ==
    \E r \in Reqs, size \in Sizes : TarWrite(r, size) /\ UNCHANGED <<now, hubVars, termVars, panelVars>>

JobsMonitorTick == \E r \in Reqs : MonitorTick(r) /\ UNCHANGED <<now, hubVars, termVars, panelVars>>

JobsChildClose ==
    \E r \in Reqs, code \in 0..2 :
        /\ ChildClose(r, code)
        /\ UNCHANGED <<now, hubQuiet, termVars, panelVars>>

JobsChildError ==
    \E r \in Reqs :
        /\ ChildError(r)
        /\ UNCHANGED <<now, hubQuiet, termVars, panelVars>>

JobsChildCloseAfterError ==
    \E r \in Reqs : ChildCloseAfterError(r) /\ UNCHANGED <<now, hubVars, termVars, panelVars>>

JobsSetNotes ==
    \E id \in JobIds, text \in Notes : SetNotes(id, text) /\ UNCHANGED <<now, hubVars, termVars, panelVars>>

JobsDelete == \E id \in JobIds : DeleteBackup(id) /\ UNCHANGED <<now, hubVars, termVars, panelVars>>

JobsNext ==
    \/ JobsTick
    \/ JobsCreateBegin
    \/ JobsCreateReply
    \/ JobsTaskStart
    \/ JobsTarOpen
    \/ JobsTarWrite
    \/ JobsMonitorTick
    \/ JobsChildClose
    \/ JobsChildError
    \/ JobsChildCloseAfterError
    \/ JobsSetNotes
    \/ JobsDelete

SpecJobs == Init /\ [][JobsNext]_vars

(* SpecEvents: one backup job, the hub's log and the observers *)
EventsTick == NoCloseDue /\ Tick /\ UNCHANGED <<hubVars, jobVars, termVars, panelVars>>

EventsAppend ==
    /\ nAppended < MaxAppend
    /\ StatsWarning
    /\ UNCHANGED <<now, jobVars, termVars, panelVars>>

EventsClear ==
    /\ nOps < MaxOps
    /\ NotifClear
    /\ UNCHANGED <<now, jobVars, termVars, panelVars>>

\* observers are interchangeable: they connect in the order of their numbers
EventsConnect ==
    \E c \in Clients :
        /\ \A d \in Clients : d < c => readyState[d] # 0
        /\ WsConnect(c)
        /\ UNCHANGED <<now, jobVars, termVars, panelVars>>

EventsBeginClose == \E c \in Clients : WsBeginClose(c) /\ UNCHANGED <<now, jobVars, termVars, panelVars>>

EventsCloseEvent == \E c \in Clients : WsCloseEvent(c) /\ UNCHANGED <<now, jobVars, termVars, panelVars>>

EventsCreateBegin == CreateBegin(1) /\ UNCHANGED <<now, hubVars, termVars, panelVars>>

EventsCreateReply == \E e \in Estimates : CreateReply(1, e) /\ UNCHANGED <<now, hubVars, termVars, panelVars>>

EventsTaskStart == TaskStart(1) /\ UNCHANGED <<now, hubVars, termVars, panelVars>>

EventsTarOpen == TarOpen(1) /\ UNCHANGED <<now, hubVars, termVars, panelVars>>

EventsTarWrite == TarWrite(1, MaxSize) /\ UNCHANGED <<now, hubVars, termVars, panelVars>>

EventsMonitorTick == MonitorTick(1) /\ UNCHANGED <<now, hubVars, termVars, panelVars>>

EventsChildClose == \E code \in 0..2 : ChildClose(1, code) /\ UNCHANGED <<now, hubQuiet, termVars, panelVars>>

EventsChildError == ChildError(1) /\ UNCHANGED <<now, hubQuiet, termVars, panelVars>>

EventsChildCloseAfterError == ChildCloseAfterError(1) /\ UNCHANGED <<now, hubVars, termVars, panelVars>>

EventsNext ==
    \/ EventsTick
    \/ EventsAppend
    \/ EventsClear
    \/ EventsConnect
    \/ EventsBeginClose
    \/ EventsCloseEvent
    \/ EventsCreateBegin
    \/ EventsCreateReply
    \/ EventsTaskStart
    \/ EventsTarOpen
    \/ EventsTarWrite
    \/ EventsMonitorTick
    \/ EventsChildClose
    \/ EventsChildError
    \/ EventsChildCloseAfterError

SpecEvents == Init /\ [][EventsNext]_vars

(* SpecTerm: the terminal sessions *)
TermOpen == \E s \in Sessions : TermConnect(s) /\ UNCHANGED <<now, hubVars, jobVars, panelVars>>

TermOpenFail == \E s \in Sessions : TermConnectFail(s) /\ UNCHANGED <<now, hubVars, jobVars, panelVars>>

TermData == \E s \in Sessions : PtyData(s) /\ UNCHANGED <<now, hubVars, jobVars, panelVars>>

TermExit == \E s \in Sessions : PtyExit(s) /\ UNCHANGED <<now, hubVars, jobVars, panelVars>>

TermHupExit == \E s \in Sessions : PtyHupExit(s) /\ UNCHANGED <<now, hubVars, jobVars, panelVars>>

TermPeerClose == \E s \in Sessions : TermBeginClose(s) /\ UNCHANGED <<now, hubVars, jobVars, panelVars>>

TermError == \E s \in Sessions : TermWsError(s) /\ UNCHANGED <<now, hubVars, jobVars, panelVars>>

TermClosed == \E s \in Sessions : TermCloseEvent(s) /\ UNCHANGED <<now, hubVars, jobVars, panelVars>>

TermNext ==
    \/ TermOpen
    \/ TermOpenFail
    \/ TermData
    \/ TermExit
    \/ TermHupExit
    \/ TermPeerClose
    \/ TermError
    \/ TermClosed

\* a signalled shell ends, and a channel that is closing gets its 'close' event
SpecTerm ==
    /\ Init
    /\ [][TermNext]_vars
    /\ \A s \in Sessions :
          /\ WF_vars(PtyHupExit(s) /\ UNCHANGED <<now, hubVars, jobVars, panelVars>>)
          /\ WF_vars(TermCloseEvent(s) /\ UNCHANGED <<now, hubVars, jobVars, panelVars>>)

----------------------------------------------------------------------------
(* SpecInput: the terminal sessions and the messages of their clients *)
InputOpen == \E s \in Sessions : TermConnect(s) /\ UNCHANGED <<now, hubVars, jobVars, panelVars>>

\* the sum of f[x] over the x in S
RECURSIVE Total(_, _)
Total(f, S) ==
    IF S = {} THEN 0
    ELSE LET x == CHOOSE x \in S : TRUE IN f[x] + Total(f, S \ {x})

InputMessage ==
    /\ Total([s \in Sessions |-> Len(tin[s])], Sessions) < MaxIn
    /\ \E s \in Sessions, kind \in MsgKinds :
          TermMessage(s, kind) /\ UNCHANGED <<now, hubVars, jobVars, panelVars>>

InputData ==
    /\ Total(produced, Sessions) < MaxOut
    /\ \E s \in Sessions : PtyData(s) /\ UNCHANGED <<now, hubVars, jobVars, panelVars>>

InputExit == \E s \in Sessions : PtyExit(s) /\ UNCHANGED <<now, hubVars, jobVars, panelVars>>

InputClosed == \E s \in Sessions : TermCloseEvent(s) /\ UNCHANGED <<now, hubVars, jobVars, panelVars>>

InputNext ==
    \/ InputOpen
    \/ InputMessage
    \/ InputData
    \/ InputExit
    \/ InputClosed

SpecInput == Init /\ [][InputNext]_vars

----------------------------------------------------------------------------
(* SpecJobsFair: SpecJobs with its scheduling. The awaited `du` returns, the
   setImmediate callback runs, the tar process ends and its 'close' event is
   delivered. *)
JobsFairness ==
    \A r \in Reqs :
        /\ WF_vars(\E e \in Estimates : CreateReply(r, e) /\ UNCHANGED <<now, hubVars, termVars, panelVars>>)
        /\ WF_vars(TaskStart(r) /\ UNCHANGED <<now, hubVars, termVars, panelVars>>)
        /\ WF_vars(\E code \in 0..2 : ChildClose(r, code) /\ UNCHANGED <<now, hubQuiet, termVars, panelVars>>)
        /\ WF_vars(ChildCloseAfterError(r) /\ UNCHANGED <<now, hubVars, termVars, panelVars>>)

SpecJobsFair == SpecJobs /\ JobsFairness

----------------------------------------------------------------------------
(* SpecStore: the requests about the backups a backup directory holds *)

\* the status files a backup directory can hold: none, one of the records the
\* backup task writes, with or without notes, or a file that is not JSON
StoredRecords ==
    LET written_ == {InitialStatus(EstSize), ProgressStatus(EstSize, 1),
                     CompletedStatus(EstSize, MaxSize), FailedStatus("tar exited")}
    IN  {NoFile, Corrupt} \cup written_ \cup {[rec EXCEPT !.notes = "keep"] : rec \in written_}

\* the program starts on a backup directory left by earlier runs; a completed
\* backup has its artifact
StoreInit ==
    /\ InitButFiles
    /\ artifact \in [JobIds -> {NoSize, MaxSize}]
    /\ sidecar \in [JobIds -> StoredRecords]
    /\ \A id \in JobIds : sidecar[id].status = "completed" => artifact[id] # NoSize

\* the program runs (a reboot ended it)
Up == restore.pc # "rebooted"

StoreTick == Up /\ Tick /\ UNCHANGED <<hubVars, jobVars, termVars, panelVars>>

StoreConnect ==
    /\ Up
    /\ \E c \in Clients :
          /\ \A d \in Clients : d < c => readyState[d] # 0
          /\ WsConnect(c)
          /\ UNCHANGED <<now, jobVars, termVars, panelVars>>

StoreSetNotes ==
    /\ Up
    /\ \E id \in JobIds, text \in Notes :
          SetNotes(id, text) /\ UNCHANGED <<now, hubVars, termVars, panelVars>>

StoreDelete ==
    /\ Up
    /\ \E id \in JobIds : DeleteBackup(id) /\ UNCHANGED <<now, hubVars, termVars, panelVars>>

StoreRestoreBegin ==
    \E id \in JobIds : RestoreBegin(id) /\ UNCHANGED <<now, hubVars, termVars, panelVars>>

StoreRestoreTimer == RestoreTimer /\ UNCHANGED <<now, hubVars, termVars, panelVars>>

StoreRestoreFail == RestoreFail /\ UNCHANGED <<now, hubQuiet, termVars, panelVars>>

StoreRestoreReboot == RestoreReboot /\ UNCHANGED <<now, hubVars, termVars, panelVars>>

StoreNext ==
    \/ StoreTick
    \/ StoreConnect
    \/ StoreSetNotes
    \/ StoreDelete
    \/ StoreRestoreBegin
    \/ StoreRestoreTimer
    \/ StoreRestoreFail
    \/ StoreRestoreReboot

SpecStore == StoreInit /\ [][StoreNext]_vars

----------------------------------------------------------------------------
(* SpecSend: appends while channels close or fail *)
SendAppend ==
    /\ nAppended < MaxAppend
    /\ StatsWarning
    /\ UNCHANGED <<now, jobVars, termVars, panelVars>>

SendConnect ==
    \E c \in Clients :
        /\ \A d \in Clients : d < c => readyState[d] # 0
        /\ WsConnect(c)
        /\ UNCHANGED <<now, jobVars, termVars, panelVars>>

SendBreak == \E c \in Clients : SendBreaks(c) /\ UNCHANGED <<now, jobVars, termVars, panelVars>>

SendBeginClose == \E c \in Clients : WsBeginClose(c) /\ UNCHANGED <<now, jobVars, termVars, panelVars>>

SendCloseEvent == \E c \in Clients : WsCloseEvent(c) /\ UNCHANGED <<now, jobVars, termVars, panelVars>>

SendNext ==
    \/ SendAppend
    \/ SendConnect
    \/ SendBreak
    \/ SendBeginClose
    \/ SendCloseEvent

SpecSend == Init /\ [][SendNext]_vars

----------------------------------------------------------------------------
(* SpecAuth: the login session of the admin UI over nine hours *)
AuthOpen == AuthMount /\ UNCHANGED <<now, hubVars, jobVars, termVars, users, viewVars>>

AuthClose == AuthUnmount /\ UNCHANGED <<now, hubVars, jobVars, termVars, users, viewVars>>

AuthSignIn ==
    \E valid \in BOOLEAN :
        AuthLogin(valid) /\ UNCHANGED <<now, hubVars, jobVars, termVars, users, viewVars>>

AuthSignOut == AuthLogout /\ UNCHANGED <<now, hubVars, jobVars, termVars, users, viewVars>>

AuthTick == AuthHour /\ UNCHANGED <<hubVars, jobVars, termVars, panelVars>>

AuthNext ==
    \/ AuthOpen
    \/ AuthClose
    \/ AuthSignIn
    \/ AuthSignOut
    \/ AuthTick

SpecAuth == Init /\ [][AuthNext]_vars

----------------------------------------------------------------------------
(* SpecUsers: the requests about the admin-panel users *)
UsersTick == Tick /\ UNCHANGED <<hubVars, jobVars, termVars, panelVars>>

UsersCreate ==
    \E username \in Names, saved \in BOOLEAN :
        /\ CreateUser(username, saved)
        /\ UNCHANGED <<now, hubVars, jobVars, termVars, authVars, viewVars>>

UsersUpdate ==
    \E id \in UserIds, username \in Names, role \in Roles, saved \in BOOLEAN :
        /\ UpdateUser(id, username, role, saved)
        /\ UNCHANGED <<now, hubVars, jobVars, termVars, authVars, viewVars>>

UsersPassword ==
    \E id \in UserIds, saved \in BOOLEAN :
        /\ ChangePassword(id, saved)
        /\ UNCHANGED <<now, hubVars, jobVars, termVars, authVars, viewVars>>

UsersDelete ==
    \E id \in UserIds, saved \in BOOLEAN :
        /\ DeleteUser(id, saved)
        /\ UNCHANGED <<now, hubVars, jobVars, termVars, authVars, viewVars>>

UsersNext ==
    \/ UsersTick
    \/ UsersCreate
    \/ UsersUpdate
    \/ UsersPassword
    \/ UsersDelete

SpecUsers == Init /\ [][UsersNext]_vars

----------------------------------------------------------------------------
(* SpecView: one Notifications component and the hub it shows *)

\* the component has handled every message of its channel
ViewQuiet == readyState[Viewer] = WS_OPEN /\ viewSeen = Len(inbox[Viewer])

ViewTick ==
    /\ nOps < FillOps
    /\ Tick
    /\ nOps' = nOps + 1
    /\ UNCHANGED <<notifications, wsClients, readyState, inbox, subAt, nAppended, hubRemoved, sendFails>>
    /\ UNCHANGED <<jobVars, termVars, panelVars>>

ViewConnect ==
    /\ WsConnect(Viewer)
    /\ UNCHANGED <<now, jobVars, termVars, panelVars>>

\* at most MaxAppend appends precede the component's connection, and the
\* component is at most MaxLag messages behind when an append is made
ViewAppend ==
    /\ nAppended < FillAppends
    /\ readyState[Viewer] # 0 \/ nAppended < MaxAppend
    /\ Len(inbox[Viewer]) - viewSeen <= MaxLag
    /\ StatsWarning
    /\ UNCHANGED <<now, jobVars, termVars, panelVars>>

ViewHandle ==
    /\ ViewReceive
    /\ UNCHANGED <<now, hubVars, jobVars, termVars, authVars, users>>

\* the buttons of the component: each sends its request and handles the answer
ViewDelete ==
    /\ nOps < FillOps
    /\ \E id \in {view[i].id : i \in 1..Len(view)} :
          /\ ViewDeleted(id, FindIndex(notifications, id) # 0)
          /\ NotifDelete(id)
    /\ UNCHANGED <<now, jobVars, termVars, authVars, users>>

ViewMarkRead ==
    /\ nOps < FillOps
    /\ \E id \in {view[i].id : i \in {j \in 1..Len(view) : ~view[j].read}} :
          /\ ViewMarkedRead(id)
          /\ NotifMarkRead(id)
    /\ UNCHANGED <<now, jobVars, termVars, authVars, users>>

ViewClearAll ==
    /\ nOps < FillOps
    /\ ViewCleared
    /\ NotifClear
    /\ UNCHANGED <<now, jobVars, termVars, authVars, users>>

ViewNext ==
    \/ ViewTick
    \/ ViewConnect
    \/ ViewAppend
    \/ ViewHandle
    \/ ViewDelete
    \/ ViewMarkRead
    \/ ViewClearAll

SpecView == Init /\ [][ViewNext]_vars

----------------------------------------------------------------------------
(* The whole program: every handler and callback, within the bounds above *)
Next == FillNext \/ HubNext \/ JobsNext \/ EventsNext \/ TermNext \/ InputNext \/ StoreNext
          \/ SendNext \/ AuthNext \/ UsersNext
          \/ ViewNext

Spec == Init /\ [][Next]_vars

----------------------------------------------------------------------------
(* Event Hub: properties *)

\* C1: the log never holds more than MAX_NOTIFICATIONS (50) events, and as long as
\* nothing was deleted or cleared it holds exactly the min(n, 50) most recently
\* appended events, newest first (after 60 appends: appends 60, 59, ..., 11).
C1_CapacityAndOrder ==
    /\ Len(notifications) <= MAX_NOTIFICATIONS
    /\ ~hubRemoved =>
        /\ Len(notifications) = Min(nAppended, MAX_NOTIFICATIONS)
        /\ \A i \in 1..Len(notifications) : notifications[i].seq = nAppended - i + 1

C1_Witness ==
    /\ nAppended = 60
    /\ ~hubRemoved
    /\ Len(notifications) = 50
    /\ notifications[1].seq = 60
    /\ notifications[50].seq = 11

\* the pushes a channel was sent, after its priming message
Pushes(c) == SubSeq(inbox[c], 2, Len(inbox[c]))

\* C2: an observer's first message is the priming message holding the events that
\* existed when it subscribed (none appended later, none of the retained ones
\* missing, all N of them while nothing was removed); every later message is the
\* push of one append made after the subscription, in append order without gap or
\* repetition; an observer whose channel is open has received every append so far.
C2_PrimingThenEachAppendOnce ==
    \A c \in Clients : readyState[c] # 0 =>
        /\ Len(inbox[c]) >= 1
        /\ inbox[c][1].type = "notifications_init"
        /\ \A j \in 1..Len(inbox[c][1].data) : inbox[c][1].data[j].seq <= subAt[c]
        /\ \A i \in 1..Len(notifications) :
              notifications[i].seq <= subAt[c] =>
                 \E j \in 1..Len(inbox[c][1].data) :
                    inbox[c][1].data[j].seq = notifications[i].seq
        /\ ~hubRemoved => Len(inbox[c][1].data) = Min(subAt[c], MAX_NOTIFICATIONS)
        /\ \A k \in 1..Len(Pushes(c)) :
              /\ Pushes(c)[k].type = "notification"
              /\ Pushes(c)[k].data.seq = subAt[c] + k
        /\ Len(Pushes(c)) <= nAppended - subAt[c]
        /\ readyState[c] = WS_OPEN => Len(Pushes(c)) = nAppended - subAt[c]

C2_Witness ==
    \E c \in Clients :
        /\ readyState[c] = WS_OPEN
        /\ subAt[c] = 1
        /\ Len(inbox[c][1].data) = 1
        /\ Len(Pushes(c)) = 1
        /\ \E d \in Clients : readyState[d] = WS_CLOSED /\ Len(Pushes(d)) = 1

\* the last message sent on channel c
LastMsg(box, c) == box[c][Len(box[c])]

\* C3: every event pushed to an observer is, when it is pushed, in the log list()
\* returns, and every append is pushed to every registered observer whose channel
\* is open.
C3_PushedEventsAreInTheLog ==
    [][/\ \A c \in Clients :
            (Len(inbox'[c]) > Len(inbox[c]) /\ LastMsg(inbox', c).type = "notification")
            => LastMsg(inbox', c).data \in Range(ListReply'.notifications)
       /\ nAppended' # nAppended =>
            \A c \in Clients :
               (c \in Range(wsClients) /\ readyState[c] = WS_OPEN)
               => inbox'[c] = Append(inbox[c], PushMsg(notifications'[1]))
      ]_vars

\* C4: once a job's status is completed, a success event titled "Backup Completed"
\* that names the job is in the log (as long as nothing was deleted, cleared or
\* evicted), so list() returns it and a priming message sent now contains it.
C4_CompletedJobHasEventInLog ==
    \A r \in Reqs :
        (/\ pc[r] = "done"
         /\ sidecar[jobOf[r]].status = "completed"
         /\ ~hubRemoved
         /\ nAppended < MAX_NOTIFICATIONS)
        => /\ \E i \in 1..Len(ListReply.notifications) :
                 /\ ListReply.notifications[i].title = "Backup Completed"
                 /\ ListReply.notifications[i].job = jobOf[r]
           /\ \E i \in 1..Len(InitMsg(notifications).data) :
                 /\ InitMsg(notifications).data[i].title = "Backup Completed"
                 /\ InitMsg(notifications).data[i].job = jobOf[r]


----------------------------------------------------------------------------
(* Job Orchestrator: properties *)

\* C5: a status record says progress 100 only with status completed; a record with
\* status in_progress has progress in 0..99, namely min(99, round(currentSize /
\* estimatedSize * 100)), or 0 when estimatedSize is 0, also when the artifact has
\* outgrown the estimate.
C5_Progress100OnlyWhenCompleted ==
    \A id \in JobIds :
        LET rec == sidecar[id]
        IN  rec # NoFile =>
              /\ rec.progress = 100 => rec.status = "completed"
              /\ rec.status = "in_progress" =>
                    /\ rec.progress \in 0..99
                    /\ rec.progress =
                         IF rec.estimatedSize > 0
                         THEN Min(99, Round(rec.currentSize * 100, rec.estimatedSize))
                         ELSE 0

C5_Witness ==
    \E id \in JobIds :
        /\ sidecar[id].status = "in_progress"
        /\ sidecar[id].estimatedSize > 0
        /\ sidecar[id].currentSize > sidecar[id].estimatedSize
        /\ sidecar[id].progress = 99

\* C6: as long as a job's status reply says in_progress, the progress in it never
\* goes down from one reply to the next (getStatus reads the sidecar, so this is
\* said of the reply getStatus gives before and after every step).
C6_ProgressNeverDecreases ==
    [][\A id \in JobIds :
         (/\ StatusReply(id).code = 200
          /\ StatusReply(id).body.status = "in_progress"
          /\ StatusReply(id)'.code = 200
          /\ StatusReply(id)'.body.status = "in_progress")
         => StatusReply(id)'.body.progress >= StatusReply(id).body.progress]_vars

\* C7: a delete request for a job whose status is in_progress is answered 409
\* Conflict and leaves artifact and sidecar as they are (said here of the running
\* jobs whose artifact exists, the ones the request reaches).
C7_DeleteRunningIsConflict ==
    \A id \in JobIds :
        (sidecar[id].status = "in_progress" /\ artifact[id] # NoSize) =>
            /\ DeleteResult(id).code = 409
            /\ DeleteResult(id).artifact = artifact
            /\ DeleteResult(id).sidecar = sidecar

\* C8: a delete request for a job whose status is completed or failed succeeds and
\* leaves neither artifact nor sidecar, also when the job failed without artifact.
C8_DeleteTerminalRemovesBoth ==
    \A id \in JobIds :
        sidecar[id].status \in {"completed", "failed"} =>
            /\ DeleteResult(id).code = 200
            /\ DeleteResult(id).artifact[id] = NoSize
            /\ DeleteResult(id).sidecar[id] = NoFile

----------------------------------------------------------------------------
(* Session Bridge: properties *)

\* session s is Closed: its channel is closed and no shell of it runs
Closed(s) == tws[s] = WS_CLOSED /\ pty[s] # "alive"

\* the places of the "Session ended" notice among the messages of channel s
Notices(s) == {i \in 1..Len(tout[s]) : tout[s][i].text = "Session ended"}

\* C9 as claimed: once the channel of s is closed its shell has exited or has been
\* sent a kill, and the teardown is carried out once only: kill() is called at most
\* once and ws.close() is called at most once per session.
C9_TeardownExactlyOnce ==
    \A s \in Sessions :
        /\ (tws[s] = WS_CLOSED /\ pty[s] # "none") => (pty[s] = "exited" \/ hup[s])
        /\ killCalls[s] <= 1
        /\ closeCalls[s] <= 1

\* C9 as amended: every 'close' and every 'error' event of the channel calls kill()
\* (so up to twice per session, and also after the shell has exited); once the
\* channel is closed the shell has exited or has been sent a kill; the shell exits
\* once, the channel closes once, a Closed session stays Closed, and a session whose
\* channel has left OPEN becomes Closed.
C9_KillOnCloseAndClosedForGood ==
    /\ [][\A s \in Sessions :
            /\ (tws'[s] = WS_CLOSED /\ pty'[s] # "none")
                  => ((pty'[s] = "exited" \/ hup'[s]) /\ killCalls'[s] >= 1)
            /\ (tws'[s] # tws[s] /\ tws'[s] = WS_CLOSED /\ pty[s] # "none")
                  => killCalls'[s] = killCalls[s] + 1
            /\ killCalls'[s] <= 2
            /\ closeCalls'[s] <= 1
            /\ pty[s] = "exited" => pty'[s] = "exited"
            /\ tws[s] = WS_CLOSED => tws'[s] = WS_CLOSED
            /\ Closed(s) => Closed(s)'
         ]_vars
    /\ \A s \in Sessions : (tws[s] = WS_CLOSING \/ tws[s] = WS_CLOSED) ~> Closed(s)

C9_Witness ==
    \E s \in Sessions :
        /\ Closed(s)
        /\ pty[s] = "exited"
        /\ hup[s]
        /\ killCalls[s] = 2
        /\ closeCalls[s] = 1

\* C10: a channel is sent the "Session ended" notice at most once; the notice is the
\* last message sent on it and comes after all the output chunks the shell produced,
\* in their order; a shell that exited while the channel was open did get the
\* notice sent, and the channel left OPEN only then.
C10_OneNoticeAfterAllOutput ==
    \A s \in Sessions :
        /\ Cardinality(Notices(s)) <= 1
        /\ \A i \in Notices(s) :
              /\ i = Len(tout[s])
              /\ i = produced[s] + 1
              /\ \A k \in 1..(i - 1) : tout[s][k] = OutputMsg("data", k)
        /\ (pty[s] = "exited" /\ openAtExit[s]) =>
              /\ Notices(s) # {}
              /\ tws[s] # WS_OPEN

C10_Witness ==
    \E s \in Sessions :
        /\ pty[s] = "exited"
        /\ openAtExit[s]
        /\ produced[s] = 2
        /\ Notices(s) = {3}
        /\ tws[s] = WS_CLOSED

\* the data of the 'input' messages among msgs that arrived while the session was
\* Active (shell alive, channel open), in arrival order
RECURSIVE ActiveInputs(_)
ActiveInputs(msgs) ==
    IF msgs = <<>> THEN <<>>
    ELSE LET m == Head(msgs)
         IN  (IF m.kind = "input" /\ m.active THEN <<m.data>> ELSE <<>>)
                \o ActiveInputs(Tail(msgs))

\* C11: what has been written to the shell of session s is the data of the input
\* messages that arrived on the channel of s while s was Active, one after the
\* other in arrival order: nothing reordered, dropped, duplicated or rewritten,
\* and nothing held back (the write happens in the step in which the message
\* arrives).
C11_InputWrittenInArrivalOrder ==
    \A s \in Sessions : written[s] = ActiveInputs(tin[s])

C11_Witness ==
    \E s \in Sessions :
        /\ Len(tin[s]) = 3
        /\ tin[s][1].kind = "input" /\ tin[s][1].active
        /\ tin[s][2].kind = "garbage"
        /\ tin[s][3].kind = "input" /\ tin[s][3].active
        /\ written[s] = <<<<s, 1>>, <<s, 3>>>>

\* C12: sessions are independent. Two connected sessions never use the same
\* process; what is written to the process of session p is data that arrived on
\* the channel of p (the k-th message of channel s carries <<s, k>>), and a step
\* in which a message arrives on one channel writes to no other session's process;
\* a channel is sent a message only in a step of its own session (its process
\* produced output or exited), and such a step sends to no other channel.
C12_SessionsAreIndependent ==
    [][/\ \A s, q \in Sessions :
             (s # q /\ pty'[s] # "none" /\ pty'[q] # "none") => ProcOf(s)' # ProcOf(q)'
       /\ \A p \in Sessions :
             \A i \in 1..Len(written'[p]) : written'[p][i][1] = p
       /\ \A s \in Sessions :
             tin'[s] # tin[s] => \A q \in Sessions \ {s} : written'[q] = written[q]
       /\ \A s \in Sessions :
             tout'[s] # tout[s] =>
                /\ produced'[s] # produced[s] \/ pty'[s] # pty[s]
                /\ \A q \in Sessions \ {s} : tout'[q] = tout[q]
      ]_vars

C12_Witness ==
    /\ \A s \in Sessions : pty[s] = "alive" /\ tws[s] = WS_OPEN
    /\ Len(written[1]) = 2
    /\ Len(written[2]) = 1
    /\ tin[1][1].kind = "input" /\ tin[2][1].kind = "input"
    /\ \A s \in Sessions : Len(tout[s]) = 1

----------------------------------------------------------------------------
(* Job Orchestrator: the course of a job *)

\* the channels a broadcast reaches
OpenClients == {c \in Clients : c \in Range(wsClients) /\ readyState[c] = WS_OPEN}

\* C13: in the step in which the tar process of request r ends, the job goes from
\* running to its one terminal status and one event is pushed to every open
\* observer: exit code 0 or 1 gives status completed with progress 100 and the
\* success event "Backup Completed" of that job; any other exit code or a spawn
\* error gives status failed and the error event "Backup Failed" carrying the
\* error text of the status record. Afterwards the task of r does nothing more
\* and the terminal status of the job stays (until the job is deleted).
C13_ExitDecidesOneOutcome ==
    [][\A r \in Reqs :
         LET id == jobOf[r]
         IN  /\ (exitCode[r] = NoCode /\ exitCode'[r] # NoCode) =>
                  /\ pc[r] = "running" /\ pc'[r] = "done"
                  /\ IF exitCode'[r] \in {0, 1}
                     THEN /\ sidecar'[id].status = "completed"
                          /\ sidecar'[id].progress = 100
                          /\ \A c \in OpenClients :
                               /\ Len(inbox'[c]) = Len(inbox[c]) + 1
                               /\ LastMsg(inbox', c).data.type = "success"
                               /\ LastMsg(inbox', c).data.title = "Backup Completed"
                               /\ LastMsg(inbox', c).data.job = id
                     ELSE /\ sidecar'[id].status = "failed"
                          /\ sidecar'[id].error # Undefined
                          /\ \A c \in OpenClients :
                               /\ Len(inbox'[c]) = Len(inbox[c]) + 1
                               /\ LastMsg(inbox', c).data.type = "error"
                               /\ LastMsg(inbox', c).data.title = "Backup Failed"
                               /\ LastMsg(inbox', c).data.message = sidecar'[id].error
             /\ exitCode[r] # NoCode =>
                  /\ pc'[r] = pc[r]
                  /\ exitCode'[r] = exitCode[r]
                  /\ sidecar'[id].status \in {sidecar[id].status, NoFile.status}
      ]_vars

\* the status record of the job of request r says completed or failed
Terminal(r) ==
    IF jobOf[r] = NoJob THEN FALSE
    ELSE sidecar[jobOf[r]].status = "completed" \/ sidecar[jobOf[r]].status = "failed"

\* C14: every job whose create request was answered comes to a status record
\* saying completed or failed, and no job's record says in_progress forever.
C14_EveryJobEnds ==
    /\ \A r \in Reqs : (pc[r] = "queued") ~> Terminal(r)
    /\ \A id \in JobIds : []<>(sidecar[id].status # "in_progress")

C14_Witness ==
    \E r, q \in Reqs :
        /\ jobOf[r] # jobOf[q]
        /\ pc[r] = "done" /\ sidecar[jobOf[r]].status = "completed"
        /\ pc[q] = "done" /\ sidecar[jobOf[q]].status = "failed"
        /\ exitCode[q] = 1

\* request r has been answered (pc is "queued" from the reply on)
Replied(r) == pc[r] \in {"queued", "running", "done"}

\* C15: in the step in which create request r is answered, the status record of its
\* job says in_progress, progress 0 and the estimate of the reply, and the tar
\* process of r is not spawned yet; it is spawned only after the reply. From then
\* on getStatus finds a record: a record of an answered request's job goes away
\* only in a step that deletes the job.
C15_ReplyAfterRecordBeforeSpawn ==
    [][\A r \in Reqs :
         /\ (~Replied(r) /\ Replied(r)') =>
               /\ StatusReply(jobOf[r])'.code = 200
               /\ StatusReply(jobOf[r])'.body = InitialStatus(est'[r])
               /\ proc'[r] = "none"
         /\ (proc[r] = "none" /\ proc'[r] # "none") => Replied(r)
         /\ (Replied(r) /\ StatusReply(jobOf[r]).code = 200
                        /\ StatusReply(jobOf[r])'.code # 200) =>
               /\ DeleteResult(jobOf[r]).code = 200
               /\ artifact' = DeleteResult(jobOf[r]).artifact
               /\ sidecar' = DeleteResult(jobOf[r]).sidecar
      ]_vars

C15_Witness ==
    \E r \in Reqs :
        /\ pc[r] = "queued"
        /\ proc[r] = "none"
        /\ est[r] = EstSize
        /\ StatusReply(jobOf[r]) = [code |-> 200, body |-> InitialStatus(EstSize)]

\* C16: two create requests never get the same job id, so no two tasks write the
\* status record and the artifact of one job.
C16_DistinctJobIds ==
    \A r, q \in Reqs :
        (r # q /\ pc[r] # "idle" /\ pc[q] # "idle") => jobOf[r] # jobOf[q]

\* C17: notes that setNotes stored in the status record of a job stay there, and
\* getStatus and listJobs return them, through every later step that leaves the
\* record in place (progress write, completed write, failed write), until a
\* setNotes changes them (said here of the jobs that one request only created).
C17_NotesSurviveStatusWrites ==
    [][\A id \in JobIds :
         (/\ Cardinality({r \in Reqs : jobOf'[r] = id}) = 1
          /\ sidecar[id] # NoFile
          /\ sidecar[id].notes # Undefined
          /\ sidecar'[id] # NoFile)
         => \/ /\ sidecar'[id].notes = sidecar[id].notes
               /\ StatusReply(id)'.body.notes = sidecar[id].notes
               /\ artifact'[id] # NoSize => BackupEntry(id)'.notes = sidecar[id].notes
            \/ \E text \in Notes : sidecar' = [sidecar EXCEPT ![id].notes = text]
      ]_vars

\* C18: for a job without status file, and just so for a job whose status file
\* does not parse, getStatus and setNotes answer 404 NotFound (never an internal
\* error) and setNotes writes nothing.
C18_UnreadableRecordIsNotFound ==
    \A id \in JobIds :
        (~Exists(sidecar[id]) \/ ~Parses(sidecar[id])) =>
            /\ StatusReply(id).code = 404
            /\ \A text \in Notes :
                  /\ NotesResult(id, text).code = 404
                  /\ NotesResult(id, text).sidecar = sidecar

\* C19: a restore request for a job without artifact is answered 404 ("rejected")
\* and no extraction ever starts for it; a request for a job with artifact is
\* answered first ("accepted") and the extraction starts only later, from the
\* accepted request and not before GRACE_MS after the reply; when the command
\* fails, the error event "Restore Failed" is pushed to every open observer.
C19_RestoreChecksRepliesThenExtracts ==
    [][/\ (restore.pc = "idle" /\ restore'.pc # "idle") =>
            /\ restore'.pc =
                  IF artifact[restore'.id] = NoSize THEN "rejected" ELSE "accepted"
            /\ restore'.at = now
       /\ restore.pc = "rejected" => restore'.pc = "rejected"
       /\ (restore.pc # "extracting" /\ restore'.pc = "extracting") =>
            /\ restore.pc = "accepted"
            /\ now >= restore.at + GRACE_MS
       /\ (restore.pc # "failed" /\ restore'.pc = "failed") =>
            /\ restore.pc = "extracting"
            /\ \A c \in OpenClients :
                 /\ Len(inbox'[c]) = Len(inbox[c]) + 1
                 /\ LastMsg(inbox', c).type = "notification"
                 /\ LastMsg(inbox', c).data.type = "error"
                 /\ LastMsg(inbox', c).data.title = "Restore Failed"
       /\ (restore.pc # "rebooted" /\ restore'.pc = "rebooted") =>
            restore.pc = "extracting"
      ]_vars

C19_Witness ==
    /\ restore.pc = "failed"
    /\ artifact[restore.id] = NoSize
    /\ now >= restore.at + GRACE_MS
    /\ \E c \in OpenClients :
          /\ inbox[c] # <<>>
          /\ LastMsg(inbox, c).data.title = "Restore Failed"

----------------------------------------------------------------------------
(* Event Hub: appends and failing channels *)

\* C20: every append stores its event at the head of the log and, in the same
\* step, sends it to every registered observer whose channel is open and whose
\* send does not throw, whatever the state of the other channels (not open, or
\* open with a send that throws); the channels that are not open or whose send
\* throws get nothing.
C20_AppendReachesEveryOpenChannel ==
    [][nAppended' # nAppended =>
         /\ nAppended' = nAppended + 1
         /\ notifications' # <<>>
         /\ notifications'[1] = NewNotification("warning", "CPU Usage Critical", "cpu")
         /\ \A c \in Clients :
               inbox'[c] =
                  IF c \in OpenClients /\ ~sendFails[c]
                  THEN Append(inbox[c], PushMsg(notifications'[1]))
                  ELSE inbox[c]
      ]_vars

C20_Witness ==
    \E c, d \in Clients :
        /\ wsClients = <<c, d>>
        /\ readyState[c] = WS_OPEN /\ sendFails[c]
        /\ readyState[d] = WS_OPEN /\ ~sendFails[d]
        /\ subAt[c] = 0 /\ subAt[d] = 0
        /\ nAppended = 2
        /\ Len(notifications) = 2
        /\ Len(inbox[c]) = 2
        /\ Len(inbox[d]) = 3

----------------------------------------------------------------------------
(* Event Hub: the unread count *)

\* the number of events of a log whose read flag is false
RECURSIVE Unread(_)
Unread(log) ==
    IF log = <<>> THEN 0
    ELSE (IF Head(log).read THEN 0 ELSE 1) + Unread(Tail(log))

\* C21: list() always reports countUnread equal to the number of retained events
\* whose read flag is false; an append puts its event unread at the head (the
\* count grows by one, less one when the event pushed out at the capacity was
\* unread); the count is 0 right after markRead("all") and right after clear().
C21_CountUnreadIsExact ==
    /\ [](ListReply.unreadCount = Unread(notifications))
    /\ [][
           /\ nAppended' # nAppended =>
                 /\ ~notifications'[1].read
                 /\ ListReply'.unreadCount =
                       Unread(notifications) + 1
                       - (IF /\ Len(notifications) = MAX_NOTIFICATIONS
                             /\ ~notifications[MAX_NOTIFICATIONS].read
                          THEN 1 ELSE 0)
           /\ NotifMarkAllRead => ListReply'.unreadCount = 0
           /\ NotifClear => (ListReply'.unreadCount = 0 /\ ListReply'.total = 0)
       ]_vars

C21_Witness ==
    /\ nAppended > MAX_NOTIFICATIONS
    /\ Len(notifications) = MAX_NOTIFICATIONS
    /\ nOps > 0
    /\ ListReply.unreadCount > 0
    /\ ListReply.unreadCount < Len(notifications)
    /\ notifications[MAX_NOTIFICATIONS].read

----------------------------------------------------------------------------
(* Session Bridge: messages that cannot be handled *)

\* C22: no exception leaves the message handler, whatever the message (input,
\* resize, malformed) and whatever the session's state (process running or
\* exited, channel open or closing); a message whose handling threw, or that
\* arrived for a process that has exited, writes nothing; and the handling of a
\* message of one session leaves every other session's process and every channel
\* as they were.
C22_MessageHandlerNeverThrows ==
    /\ [](~uncaught)
    /\ [][\A s \in Sessions : tin'[s] # tin[s] =>
            LET msg == tin'[s][Len(tin'[s])]
            IN  /\ ~uncaught'
                /\ (msg.kind # "input" \/ pty[s] # "alive") => written' = written
                /\ \A q \in Sessions \ {s} : written'[q] = written[q] /\ tin'[q] = tin[q]
                /\ UNCHANGED <<tws, pty, hup, tout, killCalls, closeCalls>>
       ]_vars

C22_Witness ==
    \E s, q \in Sessions :
        /\ s # q
        /\ pty[s] = "exited"
        /\ \E i \in 1..Len(tin[s]) : tin[s][i].kind = "input" /\ ~tin[s][i].active /\ tin[s][i].threw
        /\ \E i \in 1..Len(tin[s]) : tin[s][i].kind = "garbage" /\ tin[s][i].threw
        /\ written[s] = <<>>
        /\ pty[q] = "alive"
        /\ tws[q] = WS_OPEN
        /\ ~uncaught

----------------------------------------------------------------------------
(* Admin UI: the login session *)

\* C23: the UI is authenticated only while a stored session younger than
\* SESSION_DURATION (8 hours) exists; loading the page with a stored session that
\* is 8 hours old or older does not authenticate and removes it; logout removes
\* the stored session at once.
C23_SessionLastsEightHours ==
    /\ [](isAuthenticated => (stored # NoSession /\ now - stored < SESSION_DURATION))
    /\ [][/\ (AuthMount /\ stored # NoSession /\ now - stored >= SESSION_DURATION) =>
                (~isAuthenticated' /\ stored' = NoSession)
          /\ AuthLogout => (~isAuthenticated' /\ stored' = NoSession)
       ]_vars

----------------------------------------------------------------------------
(* Job Orchestrator: terminal states, interrupted jobs, deleted jobs *)

\* C24: once the status file of a job says completed or failed, no later write
\* changes its status (the file may only be removed by DELETE); in particular
\* the progress timer of a request writes nothing once the job of that request
\* has a terminal status, also after the 'error' event of the child.
C24_TerminalStatusIsAbsorbing ==
    [][/\ \A id \in JobIds :
            sidecar[id].status \in {"completed", "failed"} =>
                sidecar'[id].status \in {sidecar[id].status, "ENOENT"}
       /\ \A r \in Reqs :
            (MonitorTick(r) /\ Terminal(r)) => sidecar' = sidecar
      ]_vars

\* C25: a job that has an artifact, whose status file is missing or does not say
\* completed or failed, and that no request of this run created (no task drives
\* it) is reported with status failed by GET /api/backups and by
\* GET /api/backups/:id/status.
C25_InterruptedJobIsReportedFailed ==
    \A id \in JobIds :
        (/\ artifact[id] # NoSize
         /\ sidecar[id].status \notin {"completed", "failed"}
         /\ \A r \in Reqs : jobOf[r] # id) =>
            /\ BackupEntry(id).status = "failed"
            /\ StatusReply(id).code = 200
            /\ StatusReply(id).body.status = "failed"

\* C26: a job DELETE has answered success for has neither artifact nor status
\* file at any later time, and GET /api/backups/:id/status answers 404 for it.
C26_DeletedJobStaysDeleted ==
    \A id \in deleted :
        /\ artifact[id] = NoSize
        /\ sidecar[id] = NoFile
        /\ StatusReply(id).code = 404

----------------------------------------------------------------------------
(* Event Hub: the ids of the events *)

\* C27: the events in the log have pairwise distinct ids, so a delete or
\* mark-read request with an id that is in the log concerns exactly one event.
C27_LogIdsAreDistinct ==
    \A i, j \in 1..Len(notifications) :
        i # j => notifications[i].id # notifications[j].id

----------------------------------------------------------------------------
(* Event Hub: the observer registry *)

\* C28: the registry holds a channel exactly once from its connection until its
\* close event and not at all before or after; a push goes only to a channel
\* that is open; a close event removes its own channel only and sends nothing;
\* and every open channel has been sent every append made since it subscribed,
\* whatever other channels were removed meanwhile.
C28_RegistryHoldsOpenChannelsOnce ==
    /\ [](\A c \in Clients :
            /\ Cardinality({i \in 1..Len(wsClients) : wsClients[i] = c})
                  = (IF readyState[c] \in {WS_OPEN, WS_CLOSING} THEN 1 ELSE 0)
            /\ readyState[c] = WS_OPEN => Len(Pushes(c)) = nAppended - subAt[c])
    /\ [][\A c \in Clients :
            /\ (readyState[c] # 0 /\ inbox'[c] # inbox[c]) => readyState[c] = WS_OPEN
            /\ (readyState[c] = WS_CLOSING /\ readyState'[c] = WS_CLOSED) =>
                  /\ inbox' = inbox
                  /\ \A d \in Clients \ {c} :
                        (d \in Range(wsClients')) = (d \in Range(wsClients))
       ]_vars

C28_Witness ==
    \E c, d \in Clients :
        /\ readyState[c] = WS_CLOSED
        /\ Len(Pushes(c)) < nAppended - subAt[c]
        /\ wsClients = <<d>>
        /\ readyState[d] = WS_OPEN
        /\ subAt[d] < subAt[c]
        /\ Len(Pushes(d)) = nAppended - subAt[d]
        /\ nAppended = 2

----------------------------------------------------------------------------
(* Admin-panel users *)

\* C29: at least one user with role admin exists and no two users have the
\* same username.
C29_AnAdminAndDistinctUsernames ==
    /\ \E i \in 1..Len(users) : users[i].role = "admin"
    /\ \A i, j \in 1..Len(users) : i # j => users[i].username # users[j].username

----------------------------------------------------------------------------
(* Admin UI: the Notifications component *)

\* C30: whenever the Notifications component has handled every message of its
\* channel, its list and its unread count are those GET /api/notifications
\* reports.
C30_ViewEqualsServerList ==
    ViewQuiet =>
        /\ view = ListReply.notifications
        /\ viewUnread = ListReply.unreadCount

====
